---- MODULE Spec2Model ----
(***************************************************************************)
(* State-machine model of asteroids-bevy (src/src/main.rs).                *)
(*                                                                         *)
(* Units.  Lengths are pixels, time is milliseconds, uniform samples of    *)
(* the random generator are hundredths (0..99 stands for [0,1)).  The      *)
(* inputs below are chosen so that every value the code computes in f32    *)
(* is an integer here: frame times are dyadic fractions of a second, and   *)
(* asteroids live on the 3-4-5 lattice line through the origin, where the  *)
(* length of the position vector and the normalised step are exact.        *)
(*                                                                         *)
(* Scheduling.  main() adds the five gameplay systems to Update as one     *)
(* tuple with a run condition and no ordering constraint, so within a      *)
(* frame they run one at a time (their data accesses conflict) in an       *)
(* order the scheduler chooses.  Commands (spawn, despawn) are buffered    *)
(* and applied when the Update schedule ends; a NextState request is       *)
(* applied by the StateTransition schedule, which runs before Update in    *)
(* the following frame.                                                    *)
(***************************************************************************)
EXTENDS Integers, Sequences, FiniteSets, TLC

\* ---------------------------------------------------------------- constants
WINDOW_WIDTH == 800
WINDOW_HEIGHT == 600
WINDOW_MARGIN == 50
ASTEROID_RADIUS == 50
\* 1.0 s, in milliseconds
ASTEROID_SPAWN_RATE == 1000
ASTEROID_MIN_SPEED == 50
ASTEROID_MAX_SPEED == 100

\* resolution of a uniform sample: u stands for u / UNIT in [0,1)
UNIT == 100
\* milliseconds per second
MILLIS == 1000

\* ------------------------------------------------------------------- bounds
\* number of frames the driver delivers
MaxFrames == 4

\* frame times (ms) the driver may deliver
Deltas == {0, 500, 4000, 6000}
\* cursor_position(): None, or Some(screen position)
None == <<>>
Cursors == {None, <<440, 270>>}
\* outcomes of the three gen_range calls of one spawn: <<x, y, speed sample>>
RngSamples == {<<0, 0, 0>>, <<60, 70, 60>>}

\* the systems of the Update tuple
Systems == {"player_rotation", "asteroid_spawn", "asteroid_movement",
            "player_shooting", "player_collision"}

VARIABLES
    state,            \* State<AppState>
    next_state,       \* NextState<AppState>: None or a requested state
    spawn_timer,      \* elapsed time of SpawnTimer.timer
    score,            \* Score.value
    asteroids,        \* the entities with Asteroid, Transform and Velocity
    next_entity,      \* number of entities reserved by commands.spawn
    spawn_commands,   \* buffered spawn commands of asteroid_spawn
    despawn_commands, \* buffered despawn commands of player_shooting
    stdout,           \* the scores printed by println!
    rotation,         \* Transform.rotation of the player
    delta,            \* Time.delta of the current frame
    cursor,           \* Window.cursor_position() of the current frame
    fire,             \* buttons.just_pressed(MouseButton::Left)
    pending,          \* systems of the Update tuple that have not run yet
    pc,               \* "idle" between frames, "update" inside Update
    frames,           \* frames delivered so far
    acc,              \* history: frame time of the InGame frames since the last spawn
    sample            \* history: the values the last spawn drew from the generator

vars == <<state, next_state, spawn_timer, score, asteroids, next_entity,
          spawn_commands, despawn_commands, stdout, rotation, delta, cursor,
          fire, pending, pc, frames, acc, sample>>

\* ------------------------------------------------------------ pure helpers
RECURSIVE SqrtBetween(_, _, _)
SqrtBetween(n, lo, hi) ==
    IF lo >= hi THEN lo
    ELSE LET mid == (lo + hi + 1) \div 2
         IN IF mid * mid <= n THEN SqrtBetween(n, mid, hi)
                              ELSE SqrtBetween(n, lo, mid - 1)

\* a power of two whose square exceeds n
RECURSIVE SqrtAbove(_, _)
SqrtAbove(n, h) == IF h * h > n THEN h ELSE SqrtAbove(n, 2 * h)

\* f32::sqrt on the integers: the floor of the root (exact on the lattice;
\* for an integer r, Sqrt(n) < r exactly when the real root is below r)
Sqrt(n) == SqrtBetween(n, 0, SqrtAbove(n, 1))

Abs(n) == IF n < 0 THEN 0 - n ELSE n

RECURSIVE Gcd(_, _)
Gcd(a, b) == IF b = 0 THEN a ELSE Gcd(b, a % b)

\* x.atan2(y) for y = -(v), v an f32: the angle is represented by the
\* primitive direction <<sin, cos>> it points to.  When v is +0.0 its negation
\* is -0.0 and atan2(+-0, -0) is +-pi.
Atan2Neg(x, v) ==
    IF v = 0
    THEN (IF x = 0 THEN <<0, -1>> ELSE <<(IF x > 0 THEN 1 ELSE -1), 0>>)
    ELSE LET g == Gcd(Abs(x), Abs(v))
         IN <<x \div g, (0 - v) \div g>>

\* variant: the high segment is computed without the `- 0.5`
MapAxisUnshifted(u, dimension) ==
    IF 2 * u < UNIT
    THEN (u * 2 * WINDOW_MARGIN) \div UNIT
    ELSE (u * 2 * WINDOW_MARGIN) \div UNIT + dimension - WINDOW_MARGIN

\* the `if u < 0.5` mapping of random_position_in_corner, before centring
MapAxis(u, dimension) ==
    IF 2 * u < UNIT
    THEN (u * 2 * WINDOW_MARGIN) \div UNIT
    ELSE ((2 * u - UNIT) * WINDOW_MARGIN) \div UNIT + dimension - WINDOW_MARGIN

\* variant: the position is uniform over the whole window
random_position_in_window(ux, uy) ==
    <<(ux * WINDOW_WIDTH) \div UNIT - WINDOW_WIDTH \div 2,
      (uy * WINDOW_HEIGHT) \div UNIT - WINDOW_HEIGHT \div 2>>

random_position_in_corner(ux, uy) ==
    <<MapAxis(ux, WINDOW_WIDTH) - WINDOW_WIDTH \div 2,
      MapAxis(uy, WINDOW_HEIGHT) - WINDOW_HEIGHT \div 2>>

\* variant: the sample is scaled by the maximum, not by the width of the range
random_asteroid_speed_scaled(u) ==
    ASTEROID_MIN_SPEED + (u * ASTEROID_MAX_SPEED) \div UNIT

\* gen_range(ASTEROID_MIN_SPEED..ASTEROID_MAX_SPEED)
random_asteroid_speed(u) ==
    ASTEROID_MIN_SPEED + (u * (ASTEROID_MAX_SPEED - ASTEROID_MIN_SPEED)) \div UNIT

\* screen position -> world position (player_rotation, player_shooting)
WorldX(position) == position[1] - WINDOW_WIDTH \div 2
\* variant: the y axis is not flipped
WorldYDown(position) == position[2] - WINDOW_HEIGHT \div 2

WorldY(position) == WINDOW_HEIGHT \div 2 - position[2]

\* variant: the direction is not negated
MoveOutward(a, dt) ==
    IF a.nan THEN a
    ELSE LET len == Sqrt(a.x * a.x + a.y * a.y)
         IN IF len = 0 THEN [a EXCEPT !.nan = TRUE]
            ELSE [a EXCEPT !.x = a.x + (a.x * a.speed * dt) \div (len * MILLIS),
                           !.y = a.y + (a.y * a.speed * dt) \div (len * MILLIS)]

\* one iteration of asteroid_movement's loop.  normalize() of the zero vector
\* is NaN in every component, and NaN stays NaN.
Move(a, dt) ==
    IF a.nan THEN a
    ELSE LET len == Sqrt(a.x * a.x + a.y * a.y)
         IN IF len = 0 THEN [a EXCEPT !.nan = TRUE]
            ELSE [a EXCEPT !.x = a.x - (a.x * a.speed * dt) \div (len * MILLIS),
                           !.y = a.y - (a.y * a.speed * dt) \div (len * MILLIS)]

\* variant: the comparison is `d <= ASTEROID_RADIUS`
WithinOrOn(a, x, y) ==
    /\ ~a.nan
    /\ Sqrt((a.x - x) * (a.x - x) + (a.y - y) * (a.y - y)) <= ASTEROID_RADIUS

\* `d < ASTEROID_RADIUS` for d the distance of asteroid a to the point (x, y);
\* every comparison with NaN is false
Within(a, x, y) ==
    /\ ~a.nan
    /\ Sqrt((a.x - x) * (a.x - x) + (a.y - y) * (a.y - y)) < ASTEROID_RADIUS

\* Timer::tick of a TimerMode::Once timer that has not finished: the elapsed
\* time advances and is clamped to the duration
TimerTick(elapsed, dt) ==
    IF elapsed + dt >= ASTEROID_SPAWN_RATE THEN ASTEROID_SPAWN_RATE
    ELSE elapsed + dt

\* variant: finished() is elapsed > duration
TimerFinishedStrict(elapsed) == elapsed > ASTEROID_SPAWN_RATE

\* Timer::finished after a tick: elapsed >= duration
TimerFinished(elapsed) == elapsed >= ASTEROID_SPAWN_RATE

\* Timer::reset: the elapsed time of the timer afterwards
TimerReset(elapsed) == 0

\* variant: the score is incremented once per fire event that hits
ScoreOncePerShot(value, hits) == IF hits = {} THEN value ELSE value + 1

\* `score.value += 1` once for every asteroid hit
ScoreAfter(value, hits) == value + Cardinality(hits)

AppStateDefault == "InGame"

\* variant: with no transition queued the state falls back to the default
ApplyStateTransitionOrDefault(cur, next) ==
    IF next = None THEN AppStateDefault ELSE next[1]

\* apply_state_transition::<AppState>, installed by add_state
ApplyStateTransition(cur, next) == IF next = None THEN cur ELSE next[1]

\* variant: the tuple has no run condition
RunAlways(cur) == TRUE

\* run_if(in_state(AppState::InGame))
RunIf(cur) == cur = "InGame"

\* ---------------------------------------------------------------- the model
Init ==
    /\ state = AppStateDefault
    /\ next_state = None
    /\ spawn_timer = 0
    /\ score = 0
    /\ asteroids = {}
    /\ next_entity = 0
    /\ spawn_commands = {}
    /\ despawn_commands = {}
    /\ stdout = <<>>
    /\ rotation = <<0, 1>>
    /\ delta = 0
    /\ cursor = None
    /\ fire = FALSE
    /\ pending = {}
    /\ pc = "idle"
    /\ frames = 0
    /\ acc = 0
    /\ sample = None

\* The driver delivers a frame: time and input are read, StateTransition
\* runs, and Update starts with the systems whose run condition holds.
Frame(dt, cur, pressed) ==
    /\ pc = "idle"
    /\ frames < MaxFrames
    /\ frames' = frames + 1
    /\ delta' = dt
    /\ cursor' = cur
    /\ fire' = pressed
    /\ state' = ApplyStateTransition(state, next_state)
    /\ next_state' = None
    /\ IF RunIf(state')
       THEN pending' = Systems /\ pc' = "update"
       ELSE pending' = {} /\ pc' = "idle"
    /\ UNCHANGED <<spawn_timer, score, asteroids, next_entity, spawn_commands,
                   despawn_commands, stdout, rotation, acc,
                   sample>>

Runs(system) ==
    /\ pc = "update"
    /\ system \in pending
    /\ pending' = pending \ {system}
    /\ UNCHANGED <<pc, frames, delta, cursor, fire, state>>

player_rotation ==
    /\ Runs("player_rotation")
    /\ rotation' = IF cursor = None THEN rotation
                   ELSE Atan2Neg(WorldX(cursor), WorldY(cursor))
    /\ UNCHANGED <<next_state, spawn_timer, score, asteroids, next_entity,
                   spawn_commands, despawn_commands, stdout, acc,
                   sample>>

\* variant: one asteroid for every period the tick covers
SpawnedPerPeriod(rng) ==
    {[id |-> next_entity + i,
      x |-> random_position_in_corner(rng[1], rng[2])[1],
      y |-> random_position_in_corner(rng[1], rng[2])[2],
      speed |-> random_asteroid_speed(rng[3]),
      nan |-> FALSE] : i \in 1..((spawn_timer + delta) \div ASTEROID_SPAWN_RATE)}

\* the spawn commands one run of asteroid_spawn issues
Spawned(rng) ==
    IF TimerFinished(TimerTick(spawn_timer, delta))
    THEN {[id |-> next_entity + 1,
           x |-> random_position_in_corner(rng[1], rng[2])[1],
           y |-> random_position_in_corner(rng[1], rng[2])[2],
           speed |-> random_asteroid_speed(rng[3]),
           nan |-> FALSE]}
    ELSE {}

asteroid_spawn(rng) ==
    /\ Runs("asteroid_spawn")
    /\ spawn_commands' = spawn_commands \cup Spawned(rng)
    /\ next_entity' = next_entity + Cardinality(Spawned(rng))
    /\ spawn_timer' = IF TimerFinished(TimerTick(spawn_timer, delta))
                      THEN TimerReset(TimerTick(spawn_timer, delta))
                      ELSE TimerTick(spawn_timer, delta)
    /\ acc' = IF Spawned(rng) = {} THEN acc + delta ELSE 0
    /\ sample' = IF Spawned(rng) = {} THEN sample ELSE rng
    /\ UNCHANGED <<next_state, score, asteroids, despawn_commands, stdout,
                   rotation>>

asteroid_movement ==
    /\ Runs("asteroid_movement")
    /\ asteroids' = {Move(a, delta) : a \in asteroids}
    /\ UNCHANGED <<next_state, spawn_timer, score, next_entity, spawn_commands,
                   despawn_commands, stdout, rotation, acc,
                   sample>>

\* variant: without a cursor position the centre of the window is used
HitsCursorOrCentre ==
    IF fire
    THEN LET at == IF cursor = None
                   THEN <<WINDOW_WIDTH \div 2, WINDOW_HEIGHT \div 2>>
                   ELSE cursor
         IN {a \in asteroids : Within(a, WorldX(at), WorldY(at))}
    ELSE {}

\* the asteroids player_shooting despawns
Hits == IF fire /\ cursor # None
        THEN {a \in asteroids : Within(a, WorldX(cursor), WorldY(cursor))}
        ELSE {}

player_shooting ==
    /\ Runs("player_shooting")
    /\ score' = ScoreAfter(score, Hits)
    /\ despawn_commands' = despawn_commands \cup {a.id : a \in Hits}
    /\ UNCHANGED <<next_state, spawn_timer, asteroids, next_entity,
                   spawn_commands, stdout, rotation, acc,
                   sample>>

\* the asteroids for which player_collision's `if d < ASTEROID_RADIUS` holds
Colliding == {a \in asteroids : Within(a, 0, 0)}

\* what the loop of player_collision prints: one line per colliding asteroid
RECURSIVE Printed(_, _)
Printed(n, value) == IF n = 0 THEN <<>> ELSE <<value>> \o Printed(n - 1, value)

player_collision ==
    /\ Runs("player_collision")
    /\ next_state' = IF Colliding = {} THEN next_state ELSE <<"GameOver">>
    /\ stdout' = stdout \o Printed(Cardinality(Colliding), score)
    /\ UNCHANGED <<spawn_timer, score, asteroids, next_entity, spawn_commands,
                   despawn_commands, rotation, acc,
                   sample>>

\* the end of the Update schedule: the buffered commands are applied
apply_deferred ==
    /\ pc = "update"
    /\ pending = {}
    /\ asteroids' = {a \in asteroids : a.id \notin despawn_commands}
                        \cup spawn_commands
    /\ spawn_commands' = {}
    /\ despawn_commands' = {}
    /\ pc' = "idle"
    /\ UNCHANGED <<state, next_state, spawn_timer, score, next_entity, stdout,
                   rotation, delta, cursor, fire, pending, frames, acc,
                   sample>>

Next ==
    \/ \E dt \in Deltas, cur \in Cursors, pressed \in BOOLEAN :
           Frame(dt, cur, pressed)
    \/ player_rotation
    \/ \E rng \in RngSamples : asteroid_spawn(rng)
    \/ asteroid_movement
    \/ player_shooting
    \/ player_collision
    \/ apply_deferred

Spec == Init /\ [][Next]_vars

\* ---------------------------------------------- the generator, exhaustively
\* every pair of position samples at the resolution UNIT, with the least, the
\* middle and the greatest speed sample
RngGrid ==
    {<<ux, uy, u>> : ux \in 0..(UNIT - 1), uy \in 0..(UNIT - 1),
                     u \in {0, UNIT \div 2, UNIT - 1}}

\* inside the first frame, one period long: asteroid_spawn is the system left
InitRng ==
    /\ state = AppStateDefault
    /\ next_state = None
    /\ spawn_timer = 0
    /\ score = 0
    /\ asteroids = {}
    /\ next_entity = 0
    /\ spawn_commands = {}
    /\ despawn_commands = {}
    /\ stdout = <<>>
    /\ rotation = <<0, 1>>
    /\ delta = ASTEROID_SPAWN_RATE
    /\ cursor = None
    /\ fire = FALSE
    /\ pending = {"asteroid_spawn"}
    /\ pc = "update"
    /\ frames = 1
    /\ acc = 0
    /\ sample = None

NextRng ==
    /\ "asteroid_spawn" \in pending
    /\ \E rng \in RngGrid : asteroid_spawn(rng)

SpecRng == InitRng /\ [][NextRng]_vars

\* ------------------------------------------------------------------ claims
\* the step in which `system` runs
Ran(system) == pc = "update" /\ system \in pending /\ system \notin pending'

\* the step in which the driver delivers a frame
FrameStep == frames' = frames + 1

GameOverRequested == next_state = <<"GameOver">>

\* squared distance of asteroid a to the point (x, y)
Dist2(a, x, y) == (a.x - x) * (a.x - x) + (a.y - y) * (a.y - y)

\* the live asteroids strictly closer than the hazard radius to (x, y)
Near(x, y) ==
    {a \in asteroids :
        ~a.nan /\ Dist2(a, x, y) < ASTEROID_RADIUS * ASTEROID_RADIUS}

C2_ReportAtMostOnce ==
    /\ [](Len(stdout) <= 1)
    /\ [][state' # state => (state = "InGame" /\ state' = "GameOver")]_vars

\* C3: the score printed in the game-over report is the score of every
\* later state.
C3_ReportedScoreIsFinal ==
    \A i \in 1..Len(stdout) : stdout[i] = score

C5_PhaseMonotonic ==
    /\ state = "InGame"
    /\ [][state = "GameOver" => state' = "GameOver"]_vars

\* GameOver has been entered and the last frame of the run was delivered
C5_Witness ==
    /\ state = "GameOver"
    /\ next_state = None
    /\ frames = MaxFrames
    /\ stdout # <<>>

\* C6: the score starts at 0, never decreases, and at every frame boundary
\* score + number of live asteroids = number of asteroids spawned, so every
\* destroyed asteroid is counted exactly once.
C6_ScoreAccounting ==
    /\ score = 0
    /\ [](pc = "idle" => score + Cardinality(asteroids) = next_entity)
    /\ [][score' >= score]_vars

\* at a frame boundary two asteroids have been destroyed and one is live
C6_Witness ==
    /\ pc = "idle"
    /\ score >= 2
    /\ asteroids # {}

\* the step at the end of Update
DeferredStep == pc = "update" /\ pc' = "idle"

\* C7: a fire event with a cursor position despawns exactly the live
\* asteroids strictly closer than the hazard radius to the cursor's world
\* position, all in that event; when the commands are applied exactly these
\* leave the live set and every other asteroid stays in it as it is.
C7_HitTest ==
    [][/\ (Ran("player_shooting") /\ fire /\ cursor # None)
          => /\ despawn_commands' =
                    {a.id : a \in Near(cursor[1] - WINDOW_WIDTH \div 2,
                                       WINDOW_HEIGHT \div 2 - cursor[2])}
             /\ asteroids' = asteroids
       /\ DeferredStep
          => \A a \in asteroids :
                 IF a.id \in despawn_commands
                 THEN \A b \in asteroids' : b.id # a.id
                 ELSE a \in asteroids'
      ]_vars

\* a fire event has destroyed two asteroids at once and spared a third
C7_Witness ==
    /\ pc = "update"
    /\ "player_shooting" \notin pending
    /\ fire
    /\ cursor # None
    /\ Cardinality(despawn_commands) >= 2
    /\ \E a \in asteroids : a.id \notin despawn_commands

\* C8: in a frame without a cursor position a fire input destroys nothing and
\* changes neither the score nor the player's rotation, while the spawn timer,
\* the motion and the loss check of that frame work as in any other frame.
C8_NoPointerNoEffect ==
    [][(pc = "update" /\ cursor = None)
          => /\ score' = score
             /\ rotation' = rotation
             /\ despawn_commands = {}
             /\ despawn_commands' = {}
             /\ Ran("asteroid_spawn")
                => ((spawn_commands' # spawn_commands)
                       <=> (acc + delta >= ASTEROID_SPAWN_RATE))
             /\ Ran("asteroid_movement")
                => \A a \in asteroids :
                       (~a.nan /\ Dist2(a, 0, 0) > 0 /\ delta > 0)
                           => a \notin asteroids'
             /\ Ran("player_collision")
                => (GameOverRequested' <=> (Near(0, 0) # {}))
      ]_vars

\* player_shooting has run on a fire input without a cursor position while
\* an asteroid was within the hazard radius of the centre of the window
C8_Witness ==
    /\ pc = "update"
    /\ cursor = None
    /\ fire
    /\ "player_shooting" \notin pending
    /\ Near(0, 0) # {}

\* C9: asteroid_spawn runs only while InGame, and it spawns (exactly one
\* asteroid) if and only if the frame time accumulated since the last spawn
\* (or since the start), this frame included, is at least the period; no
\* other step spawns.
C9_SpawnPeriodicity ==
    [][/\ Ran("asteroid_spawn")
          => /\ state = "InGame"
             /\ (acc + delta >= ASTEROID_SPAWN_RATE)
                => /\ next_entity' = next_entity + 1
                   /\ Cardinality(spawn_commands') = Cardinality(spawn_commands) + 1
             /\ (acc + delta < ASTEROID_SPAWN_RATE)
                => /\ next_entity' = next_entity
                   /\ spawn_commands' = spawn_commands
       /\ ~Ran("asteroid_spawn")
          => /\ next_entity' = next_entity
             /\ spawn_commands' \subseteq spawn_commands
      ]_vars

\* a second asteroid was spawned by a tick shorter than the period, at which
\* the accumulated time reached the period
C9_Witness ==
    /\ pc = "update"
    /\ "asteroid_spawn" \notin pending
    /\ delta > 0
    /\ delta < ASTEROID_SPAWN_RATE
    /\ next_entity >= 2
    /\ spawn_commands # {}

\* C10: one run of asteroid_spawn spawns at most one asteroid however long
\* the frame was, after a spawn the timer's remaining time is the full
\* period, and the remaining time is never negative.
C10_SingleSpawnFullReset ==
    /\ [](/\ ASTEROID_SPAWN_RATE - spawn_timer >= 0
          /\ Cardinality(spawn_commands) <= 1)
    /\ [][/\ Ran("asteroid_spawn")
             => /\ next_entity' <= next_entity + 1
                /\ (spawn_commands' # spawn_commands)
                   => ASTEROID_SPAWN_RATE - spawn_timer' = ASTEROID_SPAWN_RATE
          /\ DeferredStep
             => Cardinality(asteroids') <= Cardinality(asteroids) + 1
         ]_vars

\* a frame covering several periods has spawned, with time already on the timer
C10_Witness ==
    /\ pc = "update"
    /\ "asteroid_spawn" \notin pending
    /\ delta >= 2 * ASTEROID_SPAWN_RATE
    /\ spawn_commands # {}
    /\ spawn_timer = 0
    /\ next_entity >= 2

\* C11: in a frame whose elapsed time is zero (or negative) the spawn timer
\* does not change, nothing is spawned and no asteroid position changes.
C11_ZeroElapsedNoOp ==
    [][(pc = "update" /\ delta <= 0)
          => /\ Ran("asteroid_spawn")
                => /\ spawn_timer' = spawn_timer
                   /\ spawn_commands' = spawn_commands
                   /\ next_entity' = next_entity
             /\ Ran("asteroid_movement") => asteroids' = asteroids
      ]_vars

\* the frame order of the specification
FrameOrder == <<"asteroid_spawn", "asteroid_movement", "player_rotation",
                "player_shooting", "player_collision">>

\* C12: in every frame the systems run in the order spawn, motion, aim,
\* fire, loss check: when a system runs, exactly those after it are pending.
C12_FixedOrder ==
    [][\A i \in 1..Len(FrameOrder) :
          Ran(FrameOrder[i])
              => pending' = {FrameOrder[j] : j \in (i + 1)..Len(FrameOrder)}
      ]_vars

\* C16: when the frame's fire event has destroyed every asteroid within the
\* hazard radius of the origin, the loss check of that frame requests nothing
\* and prints nothing.
C16_DestroyedNotExamined ==
    [][(/\ Ran("player_collision")
        /\ "player_shooting" \notin pending
        /\ \A a \in Near(0, 0) : a.id \in despawn_commands)
          => (next_state' = next_state /\ stdout' = stdout)
      ]_vars

\* C17: asteroid_movement never runs on an asteroid whose position is
\* exactly the origin.
C17_NoMotionAtOrigin ==
    [][Ran("asteroid_movement")
          => \A a \in asteroids : a.nan \/ a.x # 0 \/ a.y # 0
      ]_vars

\* C13: every spawn position has, before centring, its x coordinate in
\* [0, margin] or [width - margin, width] and its y coordinate in [0, margin]
\* or [height - margin, height], the low band exactly when the sample is
\* below 0.5; after centring it is never inside the interior rectangle that
\* excludes the margins.
C13_SpawnInMargins ==
    \A c \in spawn_commands :
        LET px == c.x + WINDOW_WIDTH \div 2
            py == c.y + WINDOW_HEIGHT \div 2
        IN /\ sample # None
           /\ IF 2 * sample[1] < UNIT
              THEN px \in 0..WINDOW_MARGIN
              ELSE px \in (WINDOW_WIDTH - WINDOW_MARGIN)..WINDOW_WIDTH
           /\ IF 2 * sample[2] < UNIT
              THEN py \in 0..WINDOW_MARGIN
              ELSE py \in (WINDOW_HEIGHT - WINDOW_MARGIN)..WINDOW_HEIGHT
           /\ ~(/\ Abs(c.x) < WINDOW_WIDTH \div 2 - WINDOW_MARGIN
                /\ Abs(c.y) < WINDOW_HEIGHT \div 2 - WINDOW_MARGIN)

\* a spawn drew the greatest x sample and a y sample just below one half
C13_Witness ==
    /\ spawn_commands # {}
    /\ sample # None
    /\ sample[1] = UNIT - 1
    /\ 2 * sample[2] = UNIT - 2

\* C14: the speed of every asteroid, buffered or live, lies in
\* [min_speed, max_speed), and no step changes the speed of an asteroid: it
\* keeps the speed it was spawned with.
C14_SpeedConstant ==
    /\ [](\A a \in asteroids \cup spawn_commands :
             /\ ASTEROID_MIN_SPEED <= a.speed
             /\ a.speed < ASTEROID_MAX_SPEED)
    /\ [][\A a \in asteroids \cup spawn_commands :
            \A b \in asteroids' \cup spawn_commands' :
                b.id = a.id => b.speed = a.speed]_vars

\* an asteroid has been moved after another one was destroyed and a third
\* one was spawned
C14_Witness ==
    /\ score >= 1
    /\ next_entity >= 3
    /\ pc = "update"
    /\ delta > 0
    /\ "asteroid_movement" \notin pending
    /\ \E a \in asteroids : ~a.nan /\ a.speed > ASTEROID_MIN_SPEED

\* C15: one run of asteroid_movement with positive frame time takes every
\* asteroid that has a position other than the origin along the line through
\* the origin, towards the origin, by speed x frame time; its distance to
\* the origin decreases strictly when speed x frame time does not exceed
\* that distance; its new position depends on no other asteroid, and no
\* asteroid appears or disappears.
C15_InwardMotion ==
    [][(Ran("asteroid_movement") /\ delta > 0)
          => /\ {b.id : b \in asteroids'} = {a.id : a \in asteroids}
             /\ Cardinality(asteroids') = Cardinality(asteroids)
             /\ \A a \in asteroids :
                   (~a.nan /\ Dist2(a, 0, 0) > 0)
                      => \E b \in asteroids' :
                           /\ b.id = a.id
                           /\ ~b.nan
                           /\ b.x * a.y = b.y * a.x
                           /\ (a.x - b.x) * a.x >= 0
                           /\ (a.y - b.y) * a.y >= 0
                           /\ Sqrt(Dist2(b, a.x, a.y)) * MILLIS = a.speed * delta
                           /\ (a.speed * delta <= Sqrt(Dist2(a, 0, 0)) * MILLIS)
                                 => Dist2(b, 0, 0) < Dist2(a, 0, 0)
      ]_vars

\* asteroid_movement has moved two asteroids in one frame, one of them
\* without reaching the origin and one of them past it
C15_Witness ==
    /\ pc = "update"
    /\ delta > 0
    /\ "asteroid_movement" \notin pending
    /\ \E a, b \in asteroids :
          /\ a.id # b.id
          /\ ~a.nan /\ ~b.nan
          /\ a.x < 0 /\ a.speed = ASTEROID_MIN_SPEED
          /\ b.x < 0 /\ b.speed > ASTEROID_MIN_SPEED

\* C18: a position issued by a spawn has |x| >= width/2 - margin and
\* |y| >= height/2 - margin and is not closer than the hazard radius to the
\* origin; an asteroid comes within the hazard radius only in a run of
\* asteroid_movement with positive frame time, so GameOver is requested only
\* after such a run.
C18_SpawnOutsideHazard ==
    /\ [](\A c \in spawn_commands :
             /\ Abs(c.x) >= WINDOW_WIDTH \div 2 - WINDOW_MARGIN
             /\ Abs(c.y) >= WINDOW_HEIGHT \div 2 - WINDOW_MARGIN
             /\ Dist2(c, 0, 0) >= ASTEROID_RADIUS * ASTEROID_RADIUS)
    /\ [][(\E b \in Near(0, 0)' : \A a \in Near(0, 0) : a.id # b.id)
            => (Ran("asteroid_movement") /\ delta > 0)]_vars
    /\ [][(GameOverRequested' /\ ~GameOverRequested)
            => \E a \in Near(0, 0) :
                  Abs(a.x) < WINDOW_WIDTH \div 2 - WINDOW_MARGIN]_vars

\* the loss is detected in a frame in which an asteroid was spawned as well
C18_Witness ==
    /\ GameOverRequested
    /\ Near(0, 0) # {}
    /\ spawn_commands # {}
    /\ delta > 0

\* C19: no run of asteroid_movement takes a live asteroid over the hazard
\* disc around the origin, from a distance >= radius on one side to a
\* distance >= radius on the other (so that an asteroid approaching the
\* origin is seen by the loss check and GameOver is eventually reached).
C19_NoStepOver ==
    [][Ran("asteroid_movement")
          => \A a \in asteroids : \A b \in asteroids' :
                (/\ b.id = a.id
                 /\ ~a.nan /\ ~b.nan
                 /\ Dist2(a, 0, 0) >= ASTEROID_RADIUS * ASTEROID_RADIUS
                 /\ Dist2(b, 0, 0) >= ASTEROID_RADIUS * ASTEROID_RADIUS)
                    => a.x * b.x + a.y * b.y > 0
      ]_vars


====
